---- MODULE Spec2Model ----
(***************************************************************************)
(* A model of the two cache engines of jambolo/Cache:                      *)
(*   - Cache<Key, Value> (include/Cache/Cache.h), driven through the       *)
(*     policy of TestCache (test/test-Cache.cpp);                          *)
(*   - SynchronousCache<Key, Value, Handle>                                *)
(*     (include/Cache/SynchronousCache.h).                                 *)
(* One behaviour exercises one engine object; `engine' says which, and     *)
(* FEATURE_ASYNCHRONOUS says whether Cache.h was compiled with that macro. *)
(* Every action is one whole public call.  assert() is modelled as         *)
(* compiled in (no NDEBUG): a failed assertion aborts the program.         *)
(***************************************************************************)
EXTENDS Integers, Sequences, FiniteSets, TLC

\* ---------------------------------------------------------------- bounds
\* Capacity of the test policy.  test-Cache.cpp sets MAX_ENTRIES = 100; the
\* model scales it down so that the full cache and its evictions are reached.
MAX_ENTRIES == 2
\* Depth of the call stack, in frames of get/synchronize, before it overflows.
MaxStack == 3
\* Number of SynchronousCache calls in a run.
MaxSyncOps == 9
\* Number of calls other than misses (hits, Lock, Unlock) in a run that accesses
\* NUMBER_OF_ENTRIES + 1 new keys in a row.
MaxExtras == 2

\* ------------------------------------------------------ program constants
READ_VALUE == 0      \* TestCache::read returns 0
ASYNC_VALUE == 1     \* TestCache::readAsync stores 1
DEFAULT_VALUE == 0   \* value_type() of prefetch, int
NUMBER_OF_ENTRIES == 8
INT_MAX == 2147483647     \* the largest value of the 32-bit int `age'

\* One key more than the policy's capacity, so that a miss on a full cache happens.
Keys == 1 .. (MAX_ENTRIES + 1)
\* The values the test policy delivers; the client writes them through the accessor too.
Values == {READ_VALUE, ASYNC_VALUE}
\* What stands for `no key', `no argument' and `no result' in a call record.
NoValue == 0 - 1

VARIABLES
    engine,                 \* "Cache" or "SynchronousCache": the object under test
    FEATURE_ASYNCHRONOUS,   \* the build flag of Cache.h
    container_,             \* Cache::container_ : key -> CacheEntry, std::map (sorted by key)
    logging,                \* whether this run records the history variables order and touched
    order,                  \* history: the resident keys of container_, oldest insertion first
    touched,                \* history: the keys a call of the generic Cache has named so far
    status,                 \* "running", "raised" once an exception of the policy has left a
                            \* call, or how the process died
    last,                   \* the last public call: op, key, arg, first (the key was not touched
                            \* before), trace of policy calls and erasures, returned, result
    m_entries,              \* SynchronousCache::m_entries : sequence of Entry
    nops,                   \* number of SynchronousCache calls made so far
    held                    \* history: the keys of the Lock calls on resident keys that no
                            \* Unlock has followed yet, in call order

vars == <<engine, FEATURE_ASYNCHRONOUS, container_, logging, order, touched, status, last,
          m_entries, nops, held>>

\* ------------------------------------------------------------- Cache.h
CacheEntry(value, locked, dirty, prefetched) ==
    [value |-> value, locked |-> locked, dirty |-> dirty, prefetched |-> prefetched]

Event(fn, key, value) == [fn |-> fn, key |-> key, value |-> value]

Min(S) == CHOOSE x \in S : \A y \in S : x <= y

\* The cache while a call runs: the container, the insertion history, the trace
\* of policy calls and erasures made so far by this call, the policy calls
\* <<fn, key>> that raise, and the status: "running", "raised" when an
\* exception is leaving the call, or how the process died.
Machine ==
    [c |-> container_, order |-> order, trace |-> <<>>, bad |-> {}, st |-> "running"]

\* The same, with a policy whose calls in `bad' raise.
Raising(bad) == [Machine EXCEPT !.bad = bad]

\* std::map::erase(p)
erase(m, p) ==
    [m EXCEPT !.c = [k \in (DOMAIN m.c) \ {p} |-> m.c[k]],
              !.order = SelectSeq(@, LAMBDA k : k # p),
              !.trace = Append(@, Event("erase", p, NoValue))]

\* std::map::insert({key, entry})
mapInsert(m, key, entry) ==
    [m EXCEPT !.c = [k \in (DOMAIN m.c) \cup {key} |-> IF k = key THEN entry ELSE m.c[k]],
              !.order = IF logging THEN Append(@, key) ELSE @]

\* TestCache::full
full(m, key) == Cardinality(DOMAIN m.c) >= MAX_ENTRIES

\* TestCache::read : logs the call; the value it returns is READ_VALUE.  A
\* policy's read may raise instead.
read(m, key) ==
    IF <<"read", key>> \in m.bad
    THEN [m EXCEPT !.trace = Append(@, Event("read", key, NoValue)), !.st = "raised"]
    ELSE [m EXCEPT !.trace = Append(@, Event("read", key, READ_VALUE))]

\* TestCache::write : does nothing but be called.  A policy's write may raise
\* instead.
write(m, key, value) ==
    [m EXCEPT !.trace = Append(@, Event("write", key, value)),
              !.st = IF <<"write", key>> \in m.bad THEN "raised" ELSE @]

\* condemn, were it to return begin() whatever the locks (used to test the formula of C6)
condemnFirst(m, hint) == Min(DOMAIN m.c)

\* TestCache::condemn : the first unlocked entry in map order, else the first entry
condemn(m, hint) ==
    LET unlocked == {k \in DOMAIN m.c : ~m.c[k].locked}
    IN  IF unlocked # {} THEN Min(unlocked) ELSE Min(DOMAIN m.c)

\* TestCache::readAsync : *pValue = 1, at once
readAsync(m, key) ==
    [m EXCEPT !.trace = Append(@, Event("readAsync", key, NoValue)),
              !.c[key].value = ASYNC_VALUE]

\* TestCache::waitForAsyncRead
waitForAsyncRead(m, key) ==
    [m EXCEPT !.trace = Append(@, Event("waitForAsyncRead", key, NoValue))]

\* flush(iterator), were it to leave the dirty flag set (used to test the formula of C4)
flushKeepsDirty(m, p) ==
    IF m.c[p].dirty THEN write(m, p, m.c[p].value) ELSE m

\* flush(iterator), were it to clear the dirty flag before it writes (used to
\* test the formula of C17)
flushClearsFirst(m, p) ==
    IF m.c[p].dirty
    THEN write([m EXCEPT !.c[p].dirty = FALSE], p, m.c[p].value)
    ELSE m

\* flush(iterator), were it to write whether or not the entry is dirty (used to
\* test the formula of C15)
flushAlways(m, p) == [write(m, p, m.c[p].value) EXCEPT !.c[p].dirty = FALSE]

\* Cache::flush(iterator)
flush(m, p) ==
    IF m.c[p].dirty
    THEN LET w == write(m, p, m.c[p].value)
         IN  IF w.st = "running" THEN [w EXCEPT !.c[p].dirty = FALSE] ELSE w
    ELSE m

\* purge(iterator), were it to erase without flushing (used to test the formula of C2)
purgeWithoutFlush(m, p) == erase(m, p)

\* Cache::purge(iterator)
purge(m, p) ==
    LET f == flush(m, p)
    IN  IF f.st = "running" THEN erase(f, p) ELSE f

\* Cache::insert(key, value)
insert(m, key, value) ==
    LET room == IF full(m, key) THEN purge(m, condemn(m, key)) ELSE m
    IN  IF room.st = "running"
        THEN mapInsert(room, key, CacheEntry(value, FALSE, FALSE, FALSE))
        ELSE room

\* insert(key, value, prefetched), were it to set the dirty flag and the
\* prefetched flag both (used to test the formula of C11)
insertPrefetchedBothFlags(m, key, value, prefetched) ==
    LET room == IF full(m, key) THEN purge(m, condemn(m, key)) ELSE m
    IN  mapInsert(room, key, CacheEntry(0, FALSE, prefetched, prefetched))

\* Cache::insert(key, value, prefetched).  The initializer list is
\* { false, false, prefetched, value } against the fields value, locked, dirty,
\* prefetched: value gets false (0), dirty gets `prefetched', and the
\* prefetched flag gets `value' converted to bool.
insertPrefetched(m, key, value, prefetched) ==
    LET room == IF full(m, key) THEN purge(m, condemn(m, key)) ELSE m
    IN  IF room.st = "running"
        THEN mapInsert(room, key, CacheEntry(0, FALSE, prefetched, value # 0))
        ELSE room

\* Cache::get and Cache::synchronize call each other; depth counts the frames.
RECURSIVE get(_, _, _), synchronize(_, _, _)

\* get, were it to make room before it reads (used to test the formula of C18)
getMakesRoomFirst(m, key, depth) ==
    IF depth > MaxStack THEN [m EXCEPT !.st = "stack overflow"]
    ELSE IF key \notin DOMAIN m.c
    THEN LET room == IF full(m, key) THEN purge(m, condemn(m, key)) ELSE m
             r    == read(room, key)
         IN  IF room.st # "running" THEN room
             ELSE IF r.st # "running" THEN r
             ELSE mapInsert(r, key, CacheEntry(READ_VALUE, FALSE, FALSE, FALSE))
    ELSE IF FEATURE_ASYNCHRONOUS
    THEN synchronize(m, key, depth + 1)
    ELSE m

\* Cache::get : read(key) is an argument of insert, evaluated before insert runs
get(m, key, depth) ==
    IF depth > MaxStack THEN [m EXCEPT !.st = "stack overflow"]
    ELSE IF key \notin DOMAIN m.c
    THEN LET r == read(m, key)
         IN  IF r.st = "running" THEN insert(r, key, READ_VALUE) ELSE r
    ELSE IF FEATURE_ASYNCHRONOUS
    THEN synchronize(m, key, depth + 1)
    ELSE m

\* Cache::synchronize
synchronize(m, key, depth) ==
    IF depth > MaxStack THEN [m EXCEPT !.st = "stack overflow"]
    ELSE LET g == get(m, key, depth + 1)
         IN  IF g.st # "running" THEN g
             ELSE IF g.c[key].dirty /\ g.c[key].prefetched
             THEN [g EXCEPT !.st = "assertion failed"]
             ELSE IF g.c[key].prefetched
             THEN [waitForAsyncRead(g, key) EXCEPT !.c[key].prefetched = FALSE]
             ELSE IF g.c[key].dirty
             THEN LET w == write(g, key, g.c[key].value)
                  IN  IF w.st = "running" THEN [w EXCEPT !.c[key].dirty = FALSE] ELSE w
             ELSE g

\* Cache::flush(key)
flushKey(m, key) == IF key \in DOMAIN m.c THEN flush(m, key) ELSE m

\* Cache::flush() : every entry, in map order
RECURSIVE flushFrom(_, _)
flushFrom(m, rest) ==
    IF rest = {} \/ m.st # "running" THEN m
    ELSE flushFrom(flush(m, Min(rest)), rest \ {Min(rest)})

flushAll(m) == flushFrom(m, DOMAIN m.c)

\* Cache::lock
lock(m, key, locked) ==
    LET g == get(m, key, 1)
    IN  IF g.st = "running" THEN [g EXCEPT !.c[key].locked = locked] ELSE g

\* Cache::dirty
dirty(m, key) ==
    LET g == get(m, key, 1)
    IN  IF g.st = "running" THEN [g EXCEPT !.c[key].dirty = TRUE] ELSE g

\* invalidate, were it not to check the dirty flag (used to test the formula of C3)
invalidateUnchecked(m, key) ==
    IF key \in DOMAIN m.c THEN erase(m, key) ELSE m

\* Cache::invalidate
invalidate(m, key) ==
    IF key \in DOMAIN m.c
    THEN IF m.c[key].dirty
         THEN [m EXCEPT !.st = "assertion failed"]
         ELSE erase(m, key)
    ELSE m

\* Cache::purge(key)
purgeKey(m, key) == IF key \in DOMAIN m.c THEN purge(m, key) ELSE m

\* Cache::prefetch (the call spelled asyncRead in the source is readAsync)
prefetch(m, key) ==
    IF key \notin DOMAIN m.c
    THEN LET p == insertPrefetched(m, key, DEFAULT_VALUE, TRUE)
         IN  IF p.st = "running" THEN readAsync(p, key) ELSE p
    ELSE m

\* Cache::clear.  The loop erases *p and then increments p, an invalidated
\* iterator: undefined behaviour.  After the first entry is purged the loop
\* visits some of the other entries (`visited', in map order) and then either
\* reaches end() or dies.
RECURSIVE purgeFrom(_, _)
purgeFrom(m, rest) ==
    IF rest = {} \/ m.st # "running" THEN m
    ELSE purgeFrom(purge(m, Min(rest)), rest \ {Min(rest)})

clear(m, visited, dies) ==
    IF DOMAIN m.c = {} THEN m
    ELSE LET done == purgeFrom(m, {Min(DOMAIN m.c)} \cup visited)
         IN  IF dies /\ done.st = "running"
             THEN [done EXCEPT !.st = "undefined behaviour"]
             ELSE done

\* ------------------------------------------------ the calls, as actions
\* The record of the last call when no call has been made.
NoCall == [op |-> "none", key |-> NoValue, arg |-> NoValue, first |-> FALSE, trace |-> <<>>,
           returned |-> TRUE, result |-> NoValue]

\* The call `op(key, arg)' ran the cache to m and, if it returned, returned result.
\* A run is followed up to the first exception that leaves a call (status "raised").
Return(m, op, key, arg, result) ==
    /\ container_' = m.c
    /\ order' = m.order
    /\ touched' = IF logging /\ key \in Keys THEN touched \cup {key} ELSE touched
    /\ status' = m.st
    /\ last' = [op |-> op, key |-> key, arg |-> arg,
                first |-> (logging /\ key \in Keys /\ key \notin touched),
                trace |-> m.trace,
                returned |-> (m.st = "running"),
                result |-> IF m.st = "running" THEN result ELSE NoValue]
    /\ UNCHANGED <<engine, FEATURE_ASYNCHRONOUS, logging, m_entries, nops, held>>

Live == engine = "Cache" /\ status = "running"

\* value = cache[key]
CacheIndex(key) ==
    /\ Live
    /\ LET g == get(Machine, key, 1)
       IN  Return(g, "operator[]", key, NoValue,
                  IF g.st = "running" THEN g.c[key].value ELSE NoValue)

\* cache[key] = v : the reference operator[] returns is written through
CacheIndexAssign(key, v) ==
    /\ Live
    /\ LET g == get(Machine, key, 1)
           w == IF g.st = "running" THEN [g EXCEPT !.c[key].value = v] ELSE g
       IN  Return(w, "operator[]=", key, v, NoValue)

CacheFlush(key) == Live /\ Return(flushKey(Machine, key), "flush", key, NoValue, NoValue)

CacheFlushAll == Live /\ Return(flushAll(Machine), "flush()", NoValue, NoValue, NoValue)

CacheLock(key, locked) ==
    Live /\ Return(lock(Machine, key, locked), "lock", key, locked, NoValue)

CacheDirty(key) == Live /\ Return(dirty(Machine, key), "dirty", key, NoValue, NoValue)

CacheInvalidate(key) ==
    Live /\ Return(invalidate(Machine, key), "invalidate", key, NoValue, NoValue)

CachePurge(key) == Live /\ Return(purgeKey(Machine, key), "purge", key, NoValue, NoValue)

CacheClear ==
    /\ Live
    /\ \E visited \in SUBSET (DOMAIN container_), dies \in BOOLEAN :
          /\ DOMAIN container_ = {} => (visited = {} /\ ~dies)
          /\ Return(clear(Machine, visited, dies), "clear", NoValue, NoValue, NoValue)

CachePrefetch(key) ==
    /\ Live
    /\ FEATURE_ASYNCHRONOUS
    /\ Return(prefetch(Machine, key), "prefetch", key, NoValue, NoValue)

NextCache ==
    \/ \E key \in Keys : CacheIndex(key)
    \/ \E key \in Keys, v \in Values : CacheIndexAssign(key, v)
    \/ \E key \in Keys : CacheFlush(key)
    \/ CacheFlushAll
    \/ \E key \in Keys, locked \in BOOLEAN : CacheLock(key, locked)
    \/ \E key \in Keys : CacheDirty(key)
    \/ \E key \in Keys : CacheInvalidate(key)
    \/ \E key \in Keys : CachePurge(key)
    \/ CacheClear
    \/ \E key \in Keys : CachePrefetch(key)

\* The same calls with a policy that raises: read(key) for the key of the call,
\* or write(k) for one resident dirty key k.  Each action is a call in which the
\* policy did raise; the engine catches nothing, so the exception leaves the call.
WriteFaults == {{<<"write", k>>} : k \in {j \in DOMAIN container_ : container_[j].dirty}}

Faults(key) == {{<<"read", key>>}} \cup WriteFaults

Raised(m, op, key, arg) == m.st = "raised" /\ Return(m, op, key, arg, NoValue)

RaisingIndex(key) ==
    Live /\ \E bad \in Faults(key) : Raised(get(Raising(bad), key, 1), "operator[]", key, NoValue)

RaisingFlush(key) ==
    Live /\ \E bad \in WriteFaults : Raised(flushKey(Raising(bad), key), "flush", key, NoValue)

RaisingFlushAll ==
    Live /\ \E bad \in WriteFaults : Raised(flushAll(Raising(bad)), "flush()", NoValue, NoValue)

RaisingLock(key, locked) ==
    Live /\ \E bad \in Faults(key) : Raised(lock(Raising(bad), key, locked), "lock", key, locked)

RaisingDirty(key) ==
    Live /\ \E bad \in Faults(key) : Raised(dirty(Raising(bad), key), "dirty", key, NoValue)

RaisingPurge(key) ==
    Live /\ \E bad \in WriteFaults : Raised(purgeKey(Raising(bad), key), "purge", key, NoValue)

RaisingClear ==
    /\ Live
    /\ \E bad \in WriteFaults :
          \E visited \in SUBSET ((DOMAIN container_) \ {Min(DOMAIN container_)}) :
              Raised(clear(Raising(bad), visited, FALSE), "clear", NoValue, NoValue)

RaisingPrefetch(key) ==
    /\ Live
    /\ FEATURE_ASYNCHRONOUS
    /\ \E bad \in WriteFaults : Raised(prefetch(Raising(bad), key), "prefetch", key, NoValue)

NextCacheRaising ==
    \/ NextCache
    \/ \E key \in Keys : RaisingIndex(key)
    \/ \E key \in Keys : RaisingFlush(key)
    \/ RaisingFlushAll
    \/ \E key \in Keys, locked \in BOOLEAN : RaisingLock(key, locked)
    \/ \E key \in Keys : RaisingDirty(key)
    \/ \E key \in Keys : RaisingPurge(key)
    \/ RaisingClear
    \/ \E key \in Keys : RaisingPrefetch(key)

\* ---------------------------------------------------- SynchronousCache.h
SyncKeys == 1 .. (NUMBER_OF_ENTRIES + 1)

\* age is a 32-bit int: ++age
Bump(age) == IF age = INT_MAX THEN -INT_MAX - 1 ELSE age + 1

\* age += 0x80000000 : the sum is taken in unsigned int and converted back to int
AddBias(age) == IF age >= 0 THEN (age - INT_MAX) - 1 ELSE (age + 1) + INT_MAX

\* SynchronousCache::Fetch is pure virtual: the record of `key' in the
\* dataset is named by the key itself, as its handle and as its value.
Fetch(key) == [handle |-> key, value |-> key]

SyncMachine == [e |-> m_entries, trace |-> <<>>, st |-> "running"]

\* SynchronousCache::Find : index of the first slot holding key, Len + 1 for end()
Find(e, key) ==
    LET hits == {i \in 1 .. Len(e) : e[i].key = key}
    IN  IF hits = {} THEN Len(e) + 1 ELSE Min(hits)

\* The scan, were pOldest to stay at the first slot (used to test the formula of C13)
OldestIsFirst(e) == 1

\* The scan, were it to compare with >= and so keep the last slot of maximal
\* age (used to test the formula of C16)
OldestIsLast(e) ==
    LET oldest == {i \in 1 .. Len(e) : \A j \in 1 .. Len(e) : e[j].age <= e[i].age}
    IN  CHOOSE i \in oldest : \A j \in oldest : j <= i

\* The scan for the oldest slot: the first one of maximal age
Oldest(e) ==
    Min({i \in 1 .. Len(e) : \A j \in 1 .. Len(e) : e[j].age <= e[i].age})

\* operator(), were a miss always to push a new slot (used to test the formula of C1)
operatorCallNeverReplaces(s, key) ==
    LET aged   == [i \in 1 .. Len(s.e) |-> [s.e[i] EXCEPT !.age = Bump(@)]]
        pEntry == Find(aged, key)
        got    == Fetch(key)
        fresh  == [key |-> key, age |-> 0, handle |-> got.handle, value |-> got.value]
    IN  IF pEntry <= Len(aged)
        THEN [e |-> [aged EXCEPT ![pEntry].age = 0], trace |-> s.trace,
              st |-> s.st, at |-> pEntry]
        ELSE [e |-> Append(aged, fresh),
              trace |-> Append(s.trace, Event("Fetch", key, NoValue)),
              st |-> s.st, at |-> Len(aged) + 1]

\* SynchronousCache::operator() ; the machine it returns has the slot of key in .at
operatorCall(s, key) ==
    LET aged   == [i \in 1 .. Len(s.e) |-> [s.e[i] EXCEPT !.age = Bump(@)]]
        pEntry == Find(aged, key)
        got    == Fetch(key)
        fresh  == [key |-> key, age |-> 0, handle |-> got.handle, value |-> got.value]
        fetch  == Event("Fetch", key, NoValue)
    IN  IF pEntry <= Len(aged)
        THEN [e |-> [aged EXCEPT ![pEntry].age = 0], trace |-> s.trace,
              st |-> s.st, at |-> pEntry]
        ELSE IF Len(aged) < NUMBER_OF_ENTRIES
        THEN [e |-> Append(aged, fresh), trace |-> Append(s.trace, fetch),
              st |-> s.st, at |-> Len(aged) + 1]
        ELSE LET pOldest == Oldest(aged)
             IN  [e |-> [aged EXCEPT ![pOldest] = fresh],
                  trace |-> s.trace \o
                      <<Event("Flush", aged[pOldest].handle, aged[pOldest].value), fetch>>,
                  st |-> s.st, at |-> pOldest]

\* SynchronousCache::operator() of a key that is not resident, when Fetch raises;
\* `stored' says whether Fetch had stored *pValue before it raised.  Below
\* capacity the slot being built is a local that is dropped; at capacity the
\* oldest slot has been flushed and given the new key by then, and keeps its
\* handle and its age.  The exception leaves the call: st is "raised".
operatorCallFetchRaises(s, key, stored) ==
    LET aged  == [i \in 1 .. Len(s.e) |-> [s.e[i] EXCEPT !.age = Bump(@)]]
        fetch == Event("Fetch", key, NoValue)
    IN  IF Len(aged) < NUMBER_OF_ENTRIES
        THEN [e |-> aged, trace |-> Append(s.trace, fetch), st |-> "raised"]
        ELSE LET pOldest == Oldest(aged)
             IN  [e |-> [aged EXCEPT ![pOldest].key = key,
                                     ![pOldest].value = IF stored THEN Fetch(key).value ELSE @],
                  trace |-> s.trace \o
                      <<Event("Flush", aged[pOldest].handle, aged[pOldest].value), fetch>>,
                  st |-> "raised"]

\* SynchronousCache::Lock
Lock(s, key) ==
    LET pEntry == Find(s.e, key)
    IN  IF pEntry <= Len(s.e) THEN [s EXCEPT !.e[pEntry].age = AddBias(@)] ELSE s

\* SynchronousCache::Unlock
Unlock(s, key) ==
    LET pEntry == Find(s.e, key)
    IN  IF pEntry <= Len(s.e) THEN [s EXCEPT !.e[pEntry].age = 0] ELSE s

\* The keys of the slots of e.
Resident(e) == {e[i].key : i \in 1 .. Len(e)}

SyncReturn(s, op, key, result) ==
    /\ m_entries' = s.e
    /\ status' = s.st
    /\ nops' = nops + 1
    /\ held' = IF ~logging THEN held
               ELSE LET kept == SelectSeq(held, LAMBDA k : k \in Resident(s.e))
                    IN  IF op = "Lock" /\ key \in Resident(s.e) THEN Append(kept, key)
                        ELSE IF op = "Unlock" THEN SelectSeq(kept, LAMBDA k : k # key)
                        ELSE kept
    /\ last' = [op |-> op, key |-> key, arg |-> NoValue, first |-> FALSE, trace |-> s.trace,
                returned |-> (s.st = "running"), result |-> result]
    /\ UNCHANGED <<engine, FEATURE_ASYNCHRONOUS, container_, logging, order, touched>>

\* Keys are compared for equality only (Find), so the keys are named in the
\* order of their first use: a key is new only if it is the next one.
SyncLive(key) ==
    /\ engine = "SynchronousCache"
    /\ status = "running"
    /\ nops < MaxSyncOps
    /\ key <= Len(m_entries) + 1

\* value = cache(key)
SyncCall(key) ==
    /\ SyncLive(key)
    /\ LET s == operatorCall(SyncMachine, key)
       IN  SyncReturn([e |-> s.e, trace |-> s.trace, st |-> s.st],
                      "operator()", key, s.e[s.at].value)

SyncLock(key) == SyncLive(key) /\ SyncReturn(Lock(SyncMachine, key), "Lock", key, NoValue)

SyncUnlock(key) == SyncLive(key) /\ SyncReturn(Unlock(SyncMachine, key), "Unlock", key, NoValue)

NextSync ==
    \/ \E key \in SyncKeys : SyncCall(key)
    \/ \E key \in SyncKeys : SyncLock(key)
    \/ \E key \in SyncKeys : SyncUnlock(key)

\* A run that accesses NUMBER_OF_ENTRIES + 1 new keys one after the other, the
\* keys being named in the order of their use, with at most MaxExtras other
\* calls in between: hits, Lock and Unlock of resident keys.
Misses == Len(m_entries) + (IF NUMBER_OF_ENTRIES + 1 \in Resident(m_entries) THEN 1 ELSE 0)

AgingLive ==
    /\ engine = "SynchronousCache"
    /\ status = "running"

AgingExtra(key) ==
    /\ AgingLive
    /\ key \in Resident(m_entries)
    /\ nops - Misses < MaxExtras

\* cache(key) of the next new key
AgingMiss(key) ==
    /\ AgingLive
    /\ key = Misses + 1
    /\ LET s == operatorCall(SyncMachine, key)
       IN  SyncReturn([e |-> s.e, trace |-> s.trace, st |-> s.st],
                      "operator()", key, s.e[s.at].value)

\* cache(key) of a resident key
AgingHit(key) ==
    /\ AgingExtra(key)
    /\ LET s == operatorCall(SyncMachine, key)
       IN  SyncReturn([e |-> s.e, trace |-> s.trace, st |-> s.st],
                      "operator()", key, s.e[s.at].value)

AgingLock(key) == AgingExtra(key) /\ SyncReturn(Lock(SyncMachine, key), "Lock", key, NoValue)

AgingUnlock(key) ==
    AgingExtra(key) /\ SyncReturn(Unlock(SyncMachine, key), "Unlock", key, NoValue)

\* One call on a table as a run left it.
StepLive(key) ==
    /\ engine = "SynchronousCache"
    /\ status = "running"
    /\ last = NoCall
    /\ key <= Len(m_entries) + 1

StepCall(key) ==
    /\ StepLive(key)
    /\ LET s == operatorCall(SyncMachine, key)
       IN  SyncReturn([e |-> s.e, trace |-> s.trace, st |-> s.st],
                      "operator()", key, s.e[s.at].value)

StepLock(key) == StepLive(key) /\ SyncReturn(Lock(SyncMachine, key), "Lock", key, NoValue)

StepUnlock(key) == StepLive(key) /\ SyncReturn(Unlock(SyncMachine, key), "Unlock", key, NoValue)

NextStep ==
    \/ \E key \in SyncKeys : StepCall(key)
    \/ \E key \in SyncKeys : StepLock(key)
    \/ \E key \in SyncKeys : StepUnlock(key)

\* cache(key) of a key that is not resident, with a Fetch that raises
StepCallFetchRaises(key, stored) ==
    /\ StepLive(key)
    /\ key \notin Resident(m_entries)
    /\ SyncReturn(operatorCallFetchRaises(SyncMachine, key, stored), "operator()", key, NoValue)

NextStepFetchRaises ==
    \/ NextStep
    \/ \E key \in SyncKeys, stored \in BOOLEAN : StepCallFetchRaises(key, stored)

NextAging ==
    \/ \E key \in SyncKeys : AgingMiss(key)
    \/ \E key \in SyncKeys : AgingHit(key)
    \/ \E key \in SyncKeys : AgingLock(key)
    \/ \E key \in SyncKeys : AgingUnlock(key)

\* ------------------------------------------------------- specifications
\* The state after construction of either object.
Constructed ==
    /\ container_ = <<>>
    /\ order = <<>>
    /\ touched = {}
    /\ status = "running"
    /\ last = NoCall
    /\ m_entries = <<>>
    /\ nops = 0
    /\ held = <<>>

InitCache ==
    /\ engine = "Cache"
    /\ FEATURE_ASYNCHRONOUS \in BOOLEAN
    /\ logging = FALSE
    /\ Constructed

InitSync ==
    /\ engine = "SynchronousCache"
    /\ FEATURE_ASYNCHRONOUS = FALSE
    /\ logging = FALSE
    /\ Constructed

InitHistory ==
    /\ engine = "Cache"
    /\ FEATURE_ASYNCHRONOUS \in BOOLEAN
    /\ logging = TRUE
    /\ Constructed

\* A SynchronousCache that some run has brought to a table of n slots: the keys
\* 1 .. n were accessed in this order (slot i has age n - i), and then each key
\* was left alone, or unlocked (age 0), or locked (age biased).
Filled(n, mark) ==
    [i \in 1 .. n |->
        [key |-> i,
         age |-> IF mark[i] = "unlocked" THEN 0
                 ELSE IF mark[i] = "locked" THEN AddBias(n - i)
                 ELSE n - i,
         handle |-> Fetch(i).handle,
         value |-> Fetch(i).value]]

InitStep ==
    /\ engine = "SynchronousCache"
    /\ FEATURE_ASYNCHRONOUS = FALSE
    /\ logging = FALSE
    /\ container_ = <<>>
    /\ order = <<>>
    /\ touched = {}
    /\ status = "running"
    /\ last = NoCall
    /\ nops = 0
    /\ held = <<>>
    /\ \E n \in 0 .. NUMBER_OF_ENTRIES :
          \E mark \in [1 .. n -> {"aged", "unlocked", "locked"}] :
              m_entries = Filled(n, mark)

\* A SynchronousCache, with the Lock calls recorded.
InitAging ==
    /\ engine = "SynchronousCache"
    /\ FEATURE_ASYNCHRONOUS = FALSE
    /\ logging = TRUE
    /\ Constructed

Init == InitCache \/ InitSync

Next == NextCache \/ NextSync

\* Either engine.
Spec == Init /\ [][Next]_vars

\* The generic Cache alone.
SpecCache == InitCache /\ [][NextCache]_vars

\* The generic Cache, with a policy whose read and write may raise.
SpecRaising == InitCache /\ [][NextCacheRaising]_vars

\* The generic Cache, with the insertion history recorded.
SpecHistory == InitHistory /\ [][NextCache]_vars

\* The SynchronousCache alone.
SpecSync == InitSync /\ [][NextSync]_vars

\* One call of the SynchronousCache on each table of the family Filled.
SpecStep == InitStep /\ [][NextStep]_vars

\* The same, with a policy whose Fetch may raise.
SpecFetchRaises == InitStep /\ [][NextStepFetchRaises]_vars

\* The SynchronousCache filled and overflowed by new keys.
SpecAging == InitAging /\ [][NextAging]_vars

\* ------------------------------------------------------------ the claims
\* Number of calls of policy function fn for key k in trace tr.
Count(tr, fn, k) == Cardinality({i \in 1 .. Len(tr) : tr[i].fn = fn /\ tr[i].key = k})

\* The calls that insert on a miss, and so may evict.
InsertingOps == {"operator[]", "operator[]=", "lock", "dirty", "prefetch"}

\* The calls that go through get.
GetOps == {"operator[]", "operator[]=", "lock", "dirty"}

\* C1. Capacity bound: the generic Cache never holds more than MAX_ENTRIES
\* entries under the test policy, and the slot table of SynchronousCache never
\* holds more than NUMBER_OF_ENTRIES slots.
CapacityBound ==
    /\ Cardinality(DOMAIN container_) <= MAX_ENTRIES
    /\ Len(m_entries) <= NUMBER_OF_ENTRIES

\* A miss on a full generic cache evicted an entry and left the cache full.
CapacityBoundWitness ==
    /\ engine = "Cache"
    /\ Cardinality(DOMAIN container_) = MAX_ENTRIES
    /\ last.op \in InsertingOps
    /\ \E i \in 1 .. Len(last.trace) : last.trace[i].fn = "erase"

\* C2. No dirty data is lost: an entry leaves the container only by an erase,
\* and whenever purge(key), clear() or an eviction erases an entry that was
\* dirty, write(key, value) with the entry's value is the call right before.
NoDirtyDataLost ==
    [][last'.op # "invalidate" =>
        /\ \A k \in (DOMAIN container_) \ (DOMAIN container_') :
              Count(last'.trace, "erase", k) = 1
        /\ \A i \in 1 .. Len(last'.trace) :
              LET e == last'.trace[i]
              IN  (e.fn = "erase" /\ e.key \in DOMAIN container_ /\ container_[e.key].dirty)
                  => /\ i > 1
                     /\ last'.trace[i - 1] = Event("write", e.key, container_[e.key].value)]_vars

\* A miss on a full cache evicted a dirty entry: it was written, then erased.
NoDirtyDataLostWitness ==
    /\ last.op \in InsertingOps
    /\ \E i \in 1 .. Len(last.trace) - 1 :
          /\ last.trace[i].fn = "write"
          /\ last.trace[i + 1] = Event("erase", last.trace[i].key, NoValue)

\* C3. Invalidate precondition: invalidate(key) never calls write; on a clean
\* resident entry it removes just that entry; on a dirty resident entry the
\* call fails and the entry stays as it was; on an absent key nothing changes.
InvalidatePrecondition ==
    [][last'.op = "invalidate" =>
        LET key == last'.key
        IN  /\ \A i \in 1 .. Len(last'.trace) : last'.trace[i].fn # "write"
            /\ (key \in DOMAIN container_ /\ ~container_[key].dirty)
                  => /\ last'.returned
                     /\ container_' = [k \in (DOMAIN container_) \ {key} |-> container_[k]]
            /\ (key \in DOMAIN container_ /\ container_[key].dirty)
                  => /\ ~last'.returned
                     /\ container_' = container_
            /\ key \notin DOMAIN container_
                  => /\ last'.returned
                     /\ container_' = container_]_vars

\* invalidate(key) of a dirty entry was rejected, and the entry is still there.
InvalidatePreconditionWitness ==
    /\ last.op = "invalidate"
    /\ ~last.returned
    /\ status = "assertion failed"
    /\ last.key \in DOMAIN container_
    /\ container_[last.key].dirty

\* C4. Write-back correctness: dirty(key) sets the dirty flag, and nothing else
\* sets it on an entry that stays; a value write through the accessor changes
\* the value alone; flush(key) of a dirty entry calls write exactly once, with
\* the value the entry holds, and leaves the entry resident and clean; flush(key)
\* or flush() of a clean entry calls no write for it.
WriteBackCorrectness ==
    [][/\ (last'.op = "flush" /\ last'.key \in DOMAIN container_)
            => LET k == last'.key
               IN  /\ last'.returned
                   /\ last'.trace = IF container_[k].dirty
                                    THEN <<Event("write", k, container_[k].value)>>
                                    ELSE <<>>
                   /\ container_' = [container_ EXCEPT ![k].dirty = FALSE]
       /\ last'.op = "flush()"
            => /\ last'.returned
               /\ \A i \in 1 .. Len(last'.trace) : last'.trace[i].fn = "write"
               /\ \A k \in DOMAIN container_ :
                     /\ Count(last'.trace, "write", k) = IF container_[k].dirty THEN 1 ELSE 0
                     /\ \A i \in 1 .. Len(last'.trace) :
                           last'.trace[i].key = k => last'.trace[i].value = container_[k].value
               /\ container_' = [k \in DOMAIN container_ |-> [container_[k] EXCEPT !.dirty = FALSE]]
       /\ (last'.op = "dirty" /\ last'.returned)
            => container_'[last'.key].dirty
       /\ (last'.op = "operator[]=" /\ last'.returned /\ last'.key \in DOMAIN container_)
            => container_' = [container_ EXCEPT ![last'.key].value = last'.arg]
       /\ \A k \in (DOMAIN container_) \cap (DOMAIN container_') :
             (~container_[k].dirty /\ container_'[k].dirty)
                => (last'.op = "dirty" /\ last'.key = k)]_vars

\* Without the asynchronous feature, flush(key) wrote back a value that was
\* set through the accessor, and the entry is resident and clean.
WriteBackCorrectnessWitness ==
    /\ ~FEATURE_ASYNCHRONOUS
    /\ last.op = "flush"
    /\ last.key \in DOMAIN container_
    /\ container_[last.key].value # READ_VALUE
    /\ last.trace = <<Event("write", last.key, container_[last.key].value)>>
    /\ ~container_[last.key].dirty

\* C5. A cache hit has no side effects: operator[](key) on a resident key
\* returns the stored value, calls neither read nor write nor anything else of
\* the policy, and leaves the container as it was.
HitHasNoSideEffects ==
    [][(last'.op = "operator[]" /\ last'.key \in DOMAIN container_)
          => /\ last'.returned
             /\ last'.result = container_[last'.key].value
             /\ last'.trace = <<>>
             /\ container_' = container_]_vars

\* C6. Eviction lock priority: a miss evicts a locked entry only when every
\* resident entry is locked.
EvictionLockPriority ==
    [][last'.op \in InsertingOps =>
        \A i \in 1 .. Len(last'.trace) :
            LET e == last'.trace[i]
            IN  (e.fn = "erase" /\ e.key \in DOMAIN container_ /\ container_[e.key].locked)
                => \A k \in DOMAIN container_ : container_[k].locked]_vars

\* A miss evicted an unlocked entry although a locked entry comes before it
\* in the container: the locked one is still resident.
EvictionLockPriorityWitness ==
    /\ last.op \in InsertingOps
    /\ \E i \in 1 .. Len(last.trace) :
          /\ last.trace[i].fn = "erase"
          /\ \E k \in DOMAIN container_ :
                /\ k # last.key
                /\ k < last.trace[i].key
                /\ container_[k].locked

\* C7. FIFO victim order: when a miss finds the cache full and some resident
\* entry is unlocked, the entry evicted is the unlocked entry inserted earliest.
FifoVictimOrder ==
    [][last'.op \in InsertingOps =>
        \A i \in 1 .. Len(last'.trace) :
            LET e        == last'.trace[i]
                unlocked == {k \in DOMAIN container_ : ~container_[k].locked}
            IN  (e.fn = "erase" /\ unlocked # {})
                => e.key = order[Min({j \in 1 .. Len(order) : order[j] \in unlocked})]]_vars

\* C8. Prefetch creates an in-flight placeholder: prefetch(key) of an absent
\* key returns with an entry for key that is in flight, clean and unlocked,
\* having called readAsync once and neither read nor waitForAsyncRead;
\* prefetch(key) of a resident key changes nothing.
PrefetchPlaceholder ==
    [][last'.op = "prefetch" =>
        LET key == last'.key
        IN  IF key \in DOMAIN container_
            THEN /\ container_' = container_
                 /\ last'.trace = <<>>
            ELSE /\ last'.returned
                 /\ key \in DOMAIN container_'
                 /\ container_'[key].prefetched
                 /\ ~container_'[key].dirty
                 /\ ~container_'[key].locked
                 /\ Count(last'.trace, "readAsync", key) = 1
                 /\ \A i \in 1 .. Len(last'.trace) :
                       last'.trace[i].fn \notin {"read", "waitForAsyncRead"}]_vars

\* C9. Access joins an in-flight load and returns: with the asynchronous
\* feature, operator[], dirty and lock of a resident key return; if the entry
\* was in flight, waitForAsyncRead(key) was called once and the flag is clear.
AccessJoinsAndReturns ==
    [][(FEATURE_ASYNCHRONOUS /\ last'.op \in GetOps /\ last'.key \in DOMAIN container_)
          => /\ last'.returned
             /\ container_[last'.key].prefetched
                   => /\ Count(last'.trace, "waitForAsyncRead", last'.key) = 1
                      /\ ~container_'[last'.key].prefetched]_vars

\* C10. Prefetch equivalence: prefetch(key) of a key no call has named before,
\* followed by operator[](key), returns; the value is the one a direct access
\* reads when both reads deliver the same; the entry is clean and not in
\* flight; no write was called, and read and readAsync at most once together.
PrefetchEquivalence ==
    [][(/\ last.op = "prefetch" /\ last.first /\ last.returned
        /\ last'.op = "operator[]" /\ last'.key = last.key)
          => LET key == last.key
             IN  /\ last'.returned
                 /\ (ASYNC_VALUE = READ_VALUE) => (last'.result = READ_VALUE)
                 /\ ~container_'[key].dirty
                 /\ ~container_'[key].prefetched
                 /\ \A i \in 1 .. Len(last.trace) : last.trace[i].fn # "write"
                 /\ \A i \in 1 .. Len(last'.trace) : last'.trace[i].fn # "write"
                 /\ Count(last.trace \o last'.trace, "read", key)
                      + Count(last.trace \o last'.trace, "readAsync", key) <= 1]_vars

\* C11. Dirty/in-flight exclusivity: with the asynchronous feature, no
\* resident entry ever has its dirty flag and its prefetched flag both set,
\* and the assertion of synchronize never fails (the only assertion that can
\* fail is the one of invalidate).
DirtyInFlightExclusive ==
    /\ \A k \in DOMAIN container_ : ~(container_[k].dirty /\ container_[k].prefetched)
    /\ status = "assertion failed" => last.op = "invalidate"

\* With the asynchronous feature, prefetch has just created an entry and
\* started its load, next to an entry that an earlier call created.
DirtyInFlightExclusiveWitness ==
    /\ FEATURE_ASYNCHRONOUS
    /\ last.op = "prefetch"
    /\ last.returned
    /\ Count(last.trace, "readAsync", last.key) = 1
    /\ last.key \in DOMAIN container_
    /\ Cardinality(DOMAIN container_) > 1

\* C12. Join before remove: an entry whose asynchronous load prefetch has
\* started and no call has joined is not erased unless waitForAsyncRead(key)
\* was called before the erasure.  Stated for the call that follows the
\* prefetch, when no call can have joined the load yet.
JoinBeforeRemove ==
    [][(/\ last.op = "prefetch" /\ last.returned
        /\ Count(last.trace, "readAsync", last.key) = 1)
          => \A i \in 1 .. Len(last'.trace) :
                (last'.trace[i].fn = "erase" /\ last'.trace[i].key = last.key)
                => \E j \in 1 .. (i - 1) :
                      last'.trace[j] = Event("waitForAsyncRead", last.key, NoValue)]_vars

\* C15. write is called only for dirty entries: every write(key, value) of a
\* call is for a key that was resident and dirty when the call began, passes
\* the value the entry had, and is the only write for that key in the call;
\* after it the entry is clean or gone, and the dirty flag of an entry that
\* stays is set again by dirty(key) only.
WriteOnlyDirty ==
    [][/\ \A i \in 1 .. Len(last'.trace) :
             LET e == last'.trace[i]
             IN  e.fn = "write"
                 => /\ e.key \in DOMAIN container_
                    /\ container_[e.key].dirty
                    /\ e.value = container_[e.key].value
                    /\ Count(last'.trace, "write", e.key) = 1
                    /\ e.key \in DOMAIN container_' => ~container_'[e.key].dirty
       /\ \A k \in (DOMAIN container_) \cap (DOMAIN container_') :
             (Count(last'.trace, "erase", k) = 0 /\ ~container_[k].dirty /\ container_'[k].dirty)
             => (last'.op = "dirty" /\ last'.key = k)]_vars

\* flush() wrote two dirty entries and left both resident and clean.
WriteOnlyDirtyWitness ==
    /\ last.op = "flush()"
    /\ Cardinality({i \in 1 .. Len(last.trace) : last.trace[i].fn = "write"}) = 2
    /\ \A k \in DOMAIN container_ : ~container_[k].dirty

\* C13. Aging eviction: when NUMBER_OF_ENTRIES + 1 distinct keys are accessed
\* in a row, the last access evicts the key accessed first; when Lock(k) of
\* one resident key is the only other call made before that access, it evicts
\* the oldest key other than k, and k stays resident.
AgingEviction ==
    [][(/\ last'.op = "operator()"
        /\ last'.key = NUMBER_OF_ENTRIES + 1
        /\ Len(m_entries) = NUMBER_OF_ENTRIES
        /\ last'.key \notin Resident(m_entries))
          => LET first   == 1 .. NUMBER_OF_ENTRIES
                 evicted == Resident(m_entries) \ Resident(m_entries')
             IN  /\ nops = NUMBER_OF_ENTRIES => evicted = {1}
                 /\ (nops = NUMBER_OF_ENTRIES + 1 /\ Len(held) = 1)
                       => /\ held[1] \in Resident(m_entries')
                          /\ evicted = {Min(first \ {held[1]})}]_vars

\* Key 1, the oldest, was locked: the ninth key took the slot of key 2.
AgingEvictionWitness ==
    /\ last.op = "operator()"
    /\ last.key = NUMBER_OF_ENTRIES + 1
    /\ nops = NUMBER_OF_ENTRIES + 2
    /\ held = <<1>>
    /\ Resident(m_entries) = SyncKeys \ {2}

\* C14. Lock exemption lasts until unlock: no operator() call evicts a key
\* that Lock has been called on and Unlock has not been called on since, as
\* long as some resident key is not so locked, whatever operator() and Lock
\* calls were made in between; and Unlock(key) leaves the age of key at 0.
LockExemption ==
    [][/\ last'.op = "operator()"
          => \A i \in 1 .. Len(held) :
                (\E k \in Resident(m_entries) : \A j \in 1 .. Len(held) : held[j] # k)
                => held[i] \in Resident(m_entries')
       /\ (last'.op = "Unlock" /\ last'.key \in Resident(m_entries))
          => m_entries'[Find(m_entries', last'.key)].age = 0]_vars

\* C20. Lock is idempotent: a second Lock(key) right after Lock(key) of a
\* resident key leaves every slot, the age of key's slot included, as the
\* first Lock(key) left it.
LockIdempotent ==
    [][(/\ last.op = "Lock" /\ last'.op = "Lock"
        /\ last'.key = last.key
        /\ last.key \in Resident(m_entries))
          => m_entries' = m_entries]_vars

\* C16. Aging replacement step: operator()(key) increments the age of every
\* resident slot; on a hit it sets the age of the hit slot to 0, calls neither
\* Flush nor Fetch and changes nothing else; on a miss with NUMBER_OF_ENTRIES
\* slots it takes the first slot of maximal age, calls Flush once with that
\* slot's handle and value and then Fetch for key, puts key with the fetched
\* handle and value at age 0 into that slot, and leaves the key, handle and
\* value of every other slot unchanged; on a miss with fewer slots it calls
\* Fetch and appends such a slot.
AgingStep ==
    [][last'.op = "operator()" =>
        LET key   == last'.key
            e     == m_entries
            aged  == [i \in 1 .. Len(e) |-> [e[i] EXCEPT !.age = Bump(@)]]
            fresh == [key |-> key, age |-> 0,
                      handle |-> Fetch(key).handle, value |-> Fetch(key).value]
            fetch == Event("Fetch", key, NoValue)
        IN  IF key \in Resident(e)
            THEN /\ last'.trace = <<>>
                 /\ m_entries' = [i \in 1 .. Len(e) |->
                                     IF e[i].key = key THEN [aged[i] EXCEPT !.age = 0]
                                     ELSE aged[i]]
                 /\ last'.result = e[Find(e, key)].value
            ELSE IF Len(e) < NUMBER_OF_ENTRIES
            THEN /\ last'.trace = <<fetch>>
                 /\ m_entries' = Append(aged, fresh)
            ELSE \E v \in 1 .. Len(e) :
                    /\ \A j \in 1 .. Len(e) : aged[j].age <= aged[v].age
                    /\ \A j \in 1 .. (v - 1) : aged[j].age < aged[v].age
                    /\ last'.trace = <<Event("Flush", e[v].handle, e[v].value), fetch>>
                    /\ m_entries' = [i \in 1 .. Len(e) |-> IF i = v THEN fresh ELSE aged[i]]
                    /\ last'.result = fresh.value]_vars

\* A miss on a full table whose slots all had the same age: the new key is in
\* the first slot, and the other slots are one call older.
AgingStepWitness ==
    /\ last.op = "operator()"
    /\ last.trace = <<Event("Flush", 1, 1), Event("Fetch", NUMBER_OF_ENTRIES + 1, NoValue)>>
    /\ Len(m_entries) = NUMBER_OF_ENTRIES
    /\ m_entries[1].key = NUMBER_OF_ENTRIES + 1
    /\ \A i \in 2 .. NUMBER_OF_ENTRIES : m_entries[i].key = i /\ m_entries[i].age = 1

\* C19. Slot consistency under fetch failure: in every state, also after an
\* operator() call in which Fetch raised, the handle and the value of every
\* slot are the ones Fetch produces for the key of the slot, so that no slot
\* carries a key whose fetch did not complete.
SlotConsistency ==
    \A i \in 1 .. Len(m_entries) :
        /\ m_entries[i].handle = Fetch(m_entries[i].key).handle
        /\ m_entries[i].value = Fetch(m_entries[i].key).value

\* C17. A failed write loses nothing: when the policy's write raises during
\* flush(key), flush(), purge(key), clear() or the eviction of an insert, the
\* call does not return, the entry being written is still resident, dirty and
\* otherwise as it was, and in the eviction case the new key is not inserted.
FailedWriteLosesNothing ==
    [][(status' = "raised"
        /\ last'.trace[Len(last'.trace)].fn = "write")
          => LET w == last'.trace[Len(last'.trace)]
             IN  /\ w.key \in DOMAIN container_
                 /\ w.key \in DOMAIN container_'
                 /\ container_[w.key].dirty
                 /\ container_'[w.key] = container_[w.key]
                 /\ w.value = container_[w.key].value
                 /\ ~last'.returned
                 /\ last'.op \in InsertingOps
                       => (last'.key \notin DOMAIN container_
                           /\ last'.key \notin DOMAIN container_')]_vars

\* The write of an eviction raised: the cache is still full, the victim is
\* still dirty, and the key of the call is absent.
FailedWriteLosesNothingWitness ==
    /\ status = "raised"
    /\ last.op \in InsertingOps
    /\ last.trace[Len(last.trace)].fn = "write"
    /\ last.key \notin DOMAIN container_
    /\ Cardinality(DOMAIN container_) = MAX_ENTRIES
    /\ container_[last.trace[Len(last.trace)].key].dirty

\* C18. A failed read leaves the cache unchanged: when the policy's read
\* raises during a miss of operator[], dirty(key) or lock(key), full cache or
\* not, the call does not return, read was the only policy call, nothing was
\* erased or written, and the container is exactly as before.
FailedReadChangesNothing ==
    [][(status' = "raised"
        /\ last'.trace[Len(last'.trace)].fn = "read")
          => /\ last'.op \in GetOps
             /\ last'.key \notin DOMAIN container_
             /\ last'.trace = <<Event("read", last'.key, NoValue)>>
             /\ container_' = container_
             /\ ~last'.returned]_vars

\* The read of a miss on a full cache with a dirty entry raised.
FailedReadChangesNothingWitness ==
    /\ status = "raised"
    /\ last.op \in GetOps
    /\ last.trace = <<Event("read", last.key, NoValue)>>
    /\ Cardinality(DOMAIN container_) = MAX_ENTRIES
    /\ \E k \in DOMAIN container_ : container_[k].dirty

====
